---- MODULE Spec2Model ----
(***************************************************************************)
(* A model of the chief-keeper (src/src/chief_keeper.py): the ledger it    *)
(* reads and writes, the TinyDB checkpoint (documents 1..3) and the        *)
(* handlers check_deployment / initial_query and process_block.            *)
(*                                                                         *)
(* Addresses are abstract; block n carries timestamp n; an eta of 0 means  *)
(* "not scheduled".  "A" is a spell, "B" a contract that answers done()    *)
(* but whose eta() call raises ValueError, "C" an account without code, on *)
(* which a contract call raises.  Block ranges of log queries include both *)
(* ends.                                                                   *)
(*                                                                         *)
(* A handler is a sequence of steps, cut where a movement of the ledger    *)
(* between two of its gateway calls can change what it does: after         *)
(* initial_query has stored its scan and before it reads the etas; after   *)
(* check_hat has read the hat and before it reads the hat's approvals;     *)
(* between the approval reads of its loop; and before the lift.  The       *)
(* ledger moves between the steps.  A submitted lift is mined at once: it  *)
(* moves the hat when DSChief accepts it.  The lifecycle calls             *)
(* process_block for a new block when no call of it is running.            *)
(*                                                                         *)
(* In every step the gateway may fail: one call raises, which ends the     *)
(* handler, and, independently of each other, any get_yay lookup and the   *)
(* eta() call may answer ValueError, which the code swallows, and the lift *)
(* may return without having been sent.                                    *)
(*                                                                         *)
(* Spec is the keeper with every ledger movement and every failure;        *)
(* SpecIndex, SpecScan, SpecVote, SpecEta, SpecLift, SpecRecover,          *)
(* SpecLoaded and SpecCheckpoint each let one part of the ledger move.     *)
(***************************************************************************)
EXTENDS Integers, Sequences, FiniteSets, TLC

\* ------------------------------------------------------------- bounds
MaxHeight == 3          \* the ledger is mined up to this height
MaxWeight == 2          \* approval weights range over 0..MaxWeight
MaxYays == 2            \* DSChief.MAX_YAYS ranges over 1..MaxYays
MaxErrorsArg == 1       \* --max-errors ranges over 0..MaxErrorsArg
PauseDelay == 2         \* the pause delay added to "now" by schedule()

\* --chief-deployment-block (default)
DeploymentBlock == 0

Addresses == {"A", "B", "C"}
\* is_contract_at: "C" is an externally owned account
Contracts == {"A", "B"}
\* contracts whose eta() call answers; the call on "B" raises ValueError
Spells == {"A"}
\* the slates an etch event may carry (true lengths 0, 1 and 2)
SlateSet == {<< >>, <<"C">>, <<"A", "B">>, <<"B", "C">>}

VARIABLES
    chain,        \* ledger: chain[n] = the slates of the etch events of block n
    max_yays,     \* ledger: ds_chief.get_max_yays()
    approvals,    \* ledger: ds_chief.get_approvals
    hat,          \* ledger: ds_chief.get_hat()
    spell_eta,    \* ledger: eta of each spell (0 = unset)
    spell_done,   \* ledger: done of each spell
    max_errors,   \* self.max_errors
    errors,       \* self.errors
    pc,           \* "init" | "initial_query" | "running" | "check_hat" |
                  \* "terminated" | "crashed": where the process is
    notified,     \* height of the last block the lifecycle notified
    dbFile,       \* the db_<network>.json file exists and is readable
    docs,         \* number of documents inserted in it (doc ids 1..docs)
    last_block_checked_for_yays,   \* document 1
    yays,                          \* document 2
    upcoming_etas,                 \* document 3
    calls,        \* what the last handler invoked, in order
    txs,          \* transactions submitted by the last handler
    raised,       \* exception that escaped the last handler ("none" if none)
    contender,    \* local `contender` of the last check_hat ("none" if not reached)
    failures,     \* process_block calls of this process in which a step raised
    local_hat,          \* local `hat` of the last check_hat ("none" if not reached)
    highestApprovals,   \* local `highestApprovals` of the last check_hat
    next_yay,           \* index in yays of the next address its loop reads
    approvals_read      \* the weights it has read: of the hat, then of each yay

ledger == <<chain, max_yays, approvals, hat, spell_eta, spell_done>>
db == <<dbFile, docs, last_block_checked_for_yays, yays, upcoming_etas>>
locals == <<contender, local_hat, highestApprovals, next_yay, approvals_read>>
vars == <<chain, max_yays, approvals, hat, spell_eta, spell_done,
          max_errors, errors, pc, notified,
          dbFile, docs, last_block_checked_for_yays, yays, upcoming_etas,
          calls, txs, raised, contender, failures,
          local_hat, highestApprovals, next_yay, approvals_read>>

\* ------------------------------------------------------------- failure points
\* how the gateway fails in a step.  `at` names the call that raises, which
\* ends the handler ("none": no call raises).  The other fields are answers
\* the code survives: cuts[k] = j > 0 says that, in the scan of the step, the
\* j-th get_yay lookup of the k-th etch answers ValueError; liftNone that
\* the lift transaction returns without having been sent; etaValueError
\* that the eta() call answers ValueError.  A failure of a call the step
\* does not issue has no effect.
NoFail == [at |-> "none", cuts |-> << >>, liftNone |-> FALSE, etaValueError |-> FALSE]
Fail(at) == [NoFail EXCEPT !.at = at]

\* the cut of the k-th etch of a scan (0: none of its lookups is cut)
cut_at(cuts, k) == IF k \in DOMAIN cuts THEN cuts[k] ELSE 0

\* ------------------------------------------------------------- ledger reads
\* web3.eth.blockNumber
blockNumber == Len(chain)

\* web3.eth.getBlock(n).timestamp
getBlock_timestamp(n) == n

\* ds_chief.past_etch_in_range(beginBlock, endBlock): the etch events of the
\* blocks beginBlock..endBlock, both ends included, oldest first
RECURSIVE past_etch_in_range(_, _)
past_etch_in_range(beginBlock, endBlock) ==
    IF beginBlock > endBlock THEN << >>
    ELSE (IF beginBlock \in DOMAIN chain THEN chain[beginBlock] ELSE << >>)
         \o past_etch_in_range(beginBlock + 1, endBlock)

\* ds_chief.get_yay(slate, i): the member at index i, or ValueError past the end
get_yay(slate, i) ==
    IF i < Len(slate) THEN [ok |-> TRUE, yay |-> slate[i + 1]]
    ELSE [ok |-> FALSE, yay |-> "ValueError"]

\* ------------------------------------------------------------- indexer
\* the loop of unpack_slate from index i on; `lookups` counts get_yay calls
RECURSIVE unpack_loop(_, _, _, _, _)
unpack_loop(slate, maxYays, i, acc, lookups) ==
    IF i >= maxYays THEN [yays |-> acc, lookups |-> lookups]
    ELSE LET r == get_yay(slate, i)
         IN IF ~r.ok THEN [yays |-> acc, lookups |-> lookups + 1]
            ELSE unpack_loop(slate, maxYays, i + 1, acc \o <<r.yay>>, lookups + 1)

\* unpack_slate with range(0, maxYays + 1)
unpack_slate_offbyone(slate, maxYays) ==
    unpack_loop(slate, maxYays + 1, 0, << >>, 0).yays

unpack_slate(slate, maxYays) ==
    unpack_loop(slate, maxYays, 0, << >>, 0).yays

\* number of get_yay lookups unpack_slate issues
unpack_lookups(slate, maxYays) ==
    unpack_loop(slate, maxYays, 0, << >>, 0).lookups

\* list(dict.fromkeys(s)): first occurrences, in order
RECURSIVE dict_fromkeys(_, _)
dict_fromkeys(s, acc) ==
    IF s = << >> THEN acc
    ELSE dict_fromkeys(Tail(s),
                       IF \E k \in DOMAIN acc : acc[k] = Head(s)
                       THEN acc ELSE Append(acc, Head(s)))

\* the for loop of get_yays over the etches
RECURSIVE concat_slates(_, _)
concat_slates(etches, maxYays) ==
    IF etches = << >> THEN << >>
    ELSE unpack_slate(Head(etches), maxYays) \o concat_slates(Tail(etches), maxYays)

\* the loop of unpack_slate when the gateway answers the cut-th get_yay
\* lookup (the one of index cut - 1) with a ValueError: line 345 takes it for
\* the end of the slate
RECURSIVE unpack_loop_at(_, _, _, _, _)
unpack_loop_at(slate, maxYays, i, acc, cut) ==
    IF i >= maxYays THEN acc
    ELSE LET r == IF cut = i + 1 THEN [ok |-> FALSE, yay |-> "ValueError"]
                  ELSE get_yay(slate, i)
         IN IF ~r.ok THEN acc
            ELSE unpack_loop_at(slate, maxYays, i + 1, acc \o <<r.yay>>, cut)

unpack_slate_at(slate, maxYays, cut) == unpack_loop_at(slate, maxYays, 0, << >>, cut)

\* the for loop of get_yays over the etches, the k-th of them first, when the
\* lookups named by cuts answer ValueError: each slate is cut on its own and
\* the loop goes on with the next etch
RECURSIVE concat_slates_at(_, _, _, _)
concat_slates_at(etches, maxYays, cuts, k) ==
    IF etches = << >> THEN << >>
    ELSE unpack_slate_at(Head(etches), maxYays, cut_at(cuts, k))
         \o concat_slates_at(Tail(etches), maxYays, cuts, k + 1)

\* get_yays without line 326
get_yays_nodedup(beginBlock, endBlock) ==
    concat_slates(past_etch_in_range(beginBlock, endBlock), max_yays)

get_yays(beginBlock, endBlock) ==
    dict_fromkeys(concat_slates(past_etch_in_range(beginBlock, endBlock), max_yays), << >>)

\* get_yays under the failure `fail`: the slates are unpacked with their cuts
get_yays_at(beginBlock, endBlock, fail) ==
    IF \A k \in DOMAIN fail.cuts : fail.cuts[k] = 0
    THEN get_yays(beginBlock, endBlock)
    ELSE dict_fromkeys(concat_slates_at(past_etch_in_range(beginBlock, endBlock),
                                        max_yays, fail.cuts, 1), << >>)

\* the cuts a scan of the blocks beginBlock..endBlock can meet: one choice
\* per etch, of no cut or of the lookup that is cut
Cuts(beginBlock, endBlock) ==
    [DOMAIN past_etch_in_range(beginBlock, endBlock) -> 0..max_yays]

\* update_db_yays storing newYays in place of oldYays + newYays
update_db_yays_overwrite(currentBlockNumber, fail) ==
    IF docs < 1 THEN
        [raised |-> "TypeError", yays |-> yays, last |-> last_block_checked_for_yays]
    ELSE IF fail.at = "scan" THEN
        [raised |-> "GatewayError", yays |-> yays, last |-> last_block_checked_for_yays]
    ELSE IF docs < 2 THEN
        [raised |-> "TypeError", yays |-> yays, last |-> last_block_checked_for_yays]
    ELSE
        [raised |-> "none",
         yays |-> get_yays_at(last_block_checked_for_yays, currentBlockNumber, fail),
         last |-> currentBlockNumber]

\* update_db_yays without the write of line 311
update_db_yays_keeplast(currentBlockNumber, fail) ==
    IF docs < 1 THEN
        [raised |-> "TypeError", yays |-> yays, last |-> last_block_checked_for_yays]
    ELSE IF fail.at = "scan" THEN
        [raised |-> "GatewayError", yays |-> yays, last |-> last_block_checked_for_yays]
    ELSE IF docs < 2 THEN
        [raised |-> "TypeError", yays |-> yays, last |-> last_block_checked_for_yays]
    ELSE
        [raised |-> "none",
         yays |-> yays \o get_yays_at(last_block_checked_for_yays, currentBlockNumber, fail),
         last |-> last_block_checked_for_yays]

\* update_db_yays: the new values of documents 1 and 2, or the exception raised.
\* fail.at "scan": the gateway raises inside get_yays; fail.cuts: it answers
\* slate lookups with a ValueError.
update_db_yays(currentBlockNumber, fail) ==
    IF docs < 1 THEN
        [raised |-> "TypeError", yays |-> yays, last |-> last_block_checked_for_yays]
    ELSE IF fail.at = "scan" THEN
        [raised |-> "GatewayError", yays |-> yays, last |-> last_block_checked_for_yays]
    ELSE IF docs < 2 THEN
        [raised |-> "TypeError", yays |-> yays, last |-> last_block_checked_for_yays]
    ELSE
        [raised |-> "none",
         yays |-> yays \o get_yays_at(last_block_checked_for_yays, currentBlockNumber, fail),
         last |-> currentBlockNumber]

\* ------------------------------------------------------------- spells
\* datetime.utcfromtimestamp / datetime.timestamp
utcfromtimestamp(timestamp) == [utc_seconds |-> timestamp]
datetime_timestamp(d) == d.utc_seconds

\* DSSSpell.done
DSSSpell_done(a) == IF a \in Spells THEN spell_done[a] ELSE FALSE

\* DSSSpell.eta: a ValueError of the call reads as timestamp 0
DSSSpell_eta(a) ==
    utcfromtimestamp(IF a \in Spells THEN spell_eta[a] ELSE 0)

get_eta_inUnix(a) == datetime_timestamp(DSSSpell_eta(a))

\* get_eta_inUnix under the failure `fail`: with etaValueError the gateway
\* answers the eta() call with a ValueError, which line 72 reads as timestamp 0
get_eta_inUnix_at(a, fail) ==
    IF fail.etaValueError THEN datetime_timestamp(utcfromtimestamp(0))
    ELSE get_eta_inUnix(a)

\* the loop of get_etas without the comparison of line 298
RECURSIVE get_etas_loop_nocheck(_, _, _)
get_etas_loop_nocheck(ys, blockNo, etas) ==
    IF ys = << >> THEN etas
    ELSE LET yay == Head(ys)
             eta == get_eta_inUnix(yay)
             new == IF yay \in Contracts
                    THEN [a \in DOMAIN etas \cup {yay} |->
                              IF a = yay THEN eta ELSE etas[a]]
                    ELSE etas
         IN get_etas_loop_nocheck(Tail(ys), blockNo, new)

\* get_etas: the future etas of the contract yays
RECURSIVE get_etas_loop(_, _, _)
get_etas_loop(ys, blockNo, etas) ==
    IF ys = << >> THEN etas
    ELSE LET yay == Head(ys)
             eta == get_eta_inUnix(yay)
             new == IF yay \in Contracts /\ eta > getBlock_timestamp(blockNo)
                    THEN [a \in DOMAIN etas \cup {yay} |->
                              IF a = yay THEN eta ELSE etas[a]]
                    ELSE etas
         IN get_etas_loop(Tail(ys), blockNo, new)

get_etas(ys, blockNo) == get_etas_loop(ys, blockNo, << >>)

\* get_etas under the failure `fail`: with etaValueError the eta() call (of
\* the one spell, which a scan lists once) is answered with a ValueError, its
\* eta reads 0 and is not in the future
get_etas_at(ys, blockNo, fail) ==
    IF fail.etaValueError THEN << >> ELSE get_etas(ys, blockNo)

\* update_db_etas: the new value of document 3, or the exception raised.
\* Line 282 calls `get_etas`, a name that exists only as a method: the call
\* raises NameError before document 3 is written.
update_db_etas(blockNo) ==
    IF docs < 2 THEN [raised |-> "TypeError", upcoming_etas |-> upcoming_etas]
    ELSE [raised |-> "NameError", upcoming_etas |-> upcoming_etas]

\* ------------------------------------------------------------- leadership
\* check_hat, lines 237-243: the block height, update_db_yays and the hat.
\* The gateway may raise in blockNumber (fail.at "block", before the
\* checkpoint is read), inside get_yays (fail.at "scan") or in get_hat
\* (fail.at "hat", after update_db_yays has committed); fail.cuts cuts slates
\* of the scan.
check_hat_begin(fail) ==
    LET upd == update_db_yays(blockNumber, fail)
        start == [raised |-> "none",
                  yays |-> yays, last |-> last_block_checked_for_yays,
                  hat |-> "none"]
    IN IF fail.at = "block" THEN [start EXCEPT !.raised = "GatewayError"]
       ELSE IF upd.raised # "none" THEN [start EXCEPT !.raised = upd.raised]
       ELSE IF fail.at = "hat"
       THEN [start EXCEPT !.raised = "GatewayError", !.yays = upd.yays, !.last = upd.last]
       ELSE [start EXCEPT !.yays = upd.yays, !.last = upd.last, !.hat = hat]

\* the body of the loop with >= for >
hat_loop_body_ge(c, highest, yay, contenderApprovals) ==
    IF contenderApprovals >= highest
    THEN [contender |-> yay, highestApprovals |-> contenderApprovals]
    ELSE [contender |-> c, highestApprovals |-> highest]

\* the body of the for loop of check_hat (lines 250-252)
hat_loop_body(c, highest, yay, contenderApprovals) ==
    IF contenderApprovals > highest
    THEN [contender |-> yay, highestApprovals |-> contenderApprovals]
    ELSE [contender |-> c, highestApprovals |-> highest]

Tx(fn, to) == [fn |-> fn, to |-> to]

\* DSChief.lift(whom), mined: the hat moves when whom has more approvals than
\* the hat; otherwise the transaction is rejected and the hat stays
DSChief_lift(whom) ==
    IF approvals[whom] > approvals[hat]
    THEN [accepted |-> TRUE, hat |-> whom]
    ELSE [accepted |-> FALSE, hat |-> hat]

\* DSSSpell.schedule (line 81) builds `Transact(...)`, a name the module does
\* not import (lines 32-41): the call raises NameError and submits nothing
DSSSpell_schedule(a) == [raised |-> "NameError", txs |-> << >>]

\* lines 259-266 for contender c, after the lift left `lifted` behind.  The
\* gateway may raise in the DSSSpell constructor or in done() (fail.at
\* "done"), or in eta() or getBlock (fail.at "now"); done() on an account
\* without code raises by itself.
check_hat_spell(c, lifted, fail) ==
    IF fail.at = "done" THEN [lifted EXCEPT !.raised = "GatewayError"]
    ELSE IF c \notin Contracts THEN [lifted EXCEPT !.raised = "BadFunctionCallOutput"]
    ELSE IF DSSSpell_done(c) # FALSE THEN lifted
    ELSE IF fail.at = "now" THEN [lifted EXCEPT !.raised = "GatewayError"]
    ELSE IF get_eta_inUnix_at(c, fail) = 0
    THEN [lifted EXCEPT !.raised = DSSSpell_schedule(c).raised,
                        !.txs = lifted.txs \o DSSSpell_schedule(c).txs]
    ELSE lifted

\* lines 254-269 without the test `contender != hat`
check_hat_end_noguard(fail) ==
    LET c == contender
        still == [raised |-> "none", txs |-> << >>, hat |-> hat]
        lift == DSChief_lift(c)
    IN IF fail.at = "lift" THEN [still EXCEPT !.raised = "GatewayError"]
       ELSE IF fail.liftNone \/ ~lift.accepted
       THEN check_hat_spell(c, still, fail)
       ELSE check_hat_spell(c, [still EXCEPT !.txs = <<Tx("lift", c)>>,
                                             !.hat = lift.hat], fail)

\* check_hat, lines 254-269: the lift and the schedule.  The gateway may
\* raise in the lift (fail.at "lift": nothing is submitted) or return without
\* sending it (fail.liftNone, and whenever DSChief rejects it); the calls on
\* the spell fail as check_hat_spell says.
check_hat_end(fail) ==
    LET c == contender
        still == [raised |-> "none", txs |-> << >>, hat |-> hat]
        lift == DSChief_lift(c)
    IN IF c = local_hat THEN still
       ELSE IF fail.at = "lift" THEN [still EXCEPT !.raised = "GatewayError"]
       ELSE IF fail.liftNone \/ ~lift.accepted
       THEN check_hat_spell(c, still, fail)
       ELSE check_hat_spell(c, [still EXCEPT !.txs = <<Tx("lift", c)>>,
                                             !.hat = lift.hat], fail)

\* check_eta: the gateway may raise in blockNumber or getBlock (fail.at
\* "check_eta", lines 213-214); line 217 reads the undefined name `blocknumber`
check_eta(fail) ==
    IF fail.at = "check_eta" THEN [raised |-> "GatewayError", txs |-> << >>]
    ELSE [raised |-> "NameError", txs |-> << >>]

\* ------------------------------------------------------------- handlers
\* check_deployment -> initial_query, up to the insert of document 2 (line
\* 197).  The gateway may raise in getBalance (fail.at "balance", line 171,
\* before any file exists), in blockNumber (fail.at "block", line 193, after
\* line 191 created the file) or inside get_yays (fail.at "scan"); fail.cuts
\* cuts slates of the scan.  An exception of the startup callback ends the
\* process.  With a readable file the handler only opens it.
Startup(fail) ==
    /\ pc = "init"
    /\ notified' = blockNumber
    /\ txs' = << >>
    /\ UNCHANGED <<ledger, max_errors, errors, failures, locals>>
    /\ IF fail.at = "balance"
       THEN /\ pc' = "crashed"
            /\ calls' = << >>
            /\ raised' = "GatewayError"
            /\ UNCHANGED db
       ELSE IF dbFile
       THEN /\ pc' = "running"
            /\ calls' = <<"initial_query">>
            /\ raised' = "none"
            /\ UNCHANGED db
       ELSE /\ dbFile' = TRUE
            /\ UNCHANGED upcoming_etas
            /\ IF fail.at = "block"
               THEN /\ pc' = "crashed"
                    /\ calls' = <<"initial_query">>
                    /\ raised' = "GatewayError"
                    /\ UNCHANGED <<docs, last_block_checked_for_yays, yays>>
               ELSE /\ last_block_checked_for_yays' = blockNumber
                    /\ calls' = <<"initial_query", "get_yays">>
                    /\ IF fail.at = "scan"
                       THEN /\ docs' = 1
                            /\ pc' = "crashed"
                            /\ raised' = "GatewayError"
                            /\ UNCHANGED yays
                       ELSE /\ yays' = get_yays_at(DeploymentBlock, blockNumber, fail)
                            /\ docs' = 2
                            /\ pc' = "initial_query"
                            /\ raised' = "none"

\* initial_query, lines 199-200: the etas of the stored yays, read after the
\* scan, and the insert of document 3.  The gateway may raise in
\* is_contract_at, eta() or getBlock (fail.at "etas", when there is a yay to
\* ask about) or answer eta() with a ValueError (fail.etaValueError).
\* get_etas keys its result by Address objects (line 299), which the insert
\* of line 200 cannot store: with an entry to store it raises TypeError.
StartupEtas(fail) ==
    /\ pc = "initial_query"
    /\ notified' = blockNumber
    /\ calls' = Append(calls, "get_etas")
    /\ UNCHANGED <<ledger, max_errors, errors, failures, locals, txs,
                   dbFile, last_block_checked_for_yays, yays>>
    /\ IF fail.at = "etas" /\ yays # << >>
       THEN /\ pc' = "crashed"
            /\ raised' = "GatewayError"
            /\ UNCHANGED <<docs, upcoming_etas>>
       ELSE \E etas \in {get_etas_at(yays, last_block_checked_for_yays, fail)} :
               IF DOMAIN etas = {}
               THEN /\ docs' = 3
                    /\ upcoming_etas' = << >>
                    /\ pc' = "running"
                    /\ raised' = "none"
               ELSE /\ pc' = "crashed"
                    /\ raised' = "TypeError"
                    /\ UNCHANGED <<docs, upcoming_etas>>

\* process_block, as the lifecycle calls it for a new block, up to line 243
\* of check_hat: the hat is read, its approvals are not yet
ProcessBlock(fail) ==
    /\ pc = "running"
    /\ notified < blockNumber
    /\ notified' = blockNumber
    /\ txs' = << >>
    /\ next_yay' = 0
    /\ contender' = "none"
    /\ highestApprovals' = 0
    /\ approvals_read' = << >>
    /\ UNCHANGED <<ledger, max_errors, errors, dbFile, docs, upcoming_etas>>
    /\ IF errors >= max_errors
       THEN /\ pc' = "terminated"
            /\ calls' = <<"terminate">>
            /\ raised' = "none"
            /\ local_hat' = "none"
            /\ UNCHANGED <<last_block_checked_for_yays, yays, failures>>
       ELSE \E r \in {check_hat_begin(fail)} :
               /\ calls' = <<"check_hat">>
               /\ yays' = r.yays
               /\ last_block_checked_for_yays' = r.last
               /\ raised' = r.raised
               /\ local_hat' = r.hat
               /\ IF r.raised # "none"
                  THEN /\ pc' = "running"
                       /\ failures' = failures + 1
                  ELSE /\ pc' = "check_hat"
                       /\ failures' = failures

\* check_hat, lines 244-246: the approvals of the hat that line 243 read,
\* as they are now; the gateway may raise in the read (fail.at "approvals")
CheckHatApprovals(fail) ==
    /\ pc = "check_hat"
    /\ next_yay = 0
    /\ UNCHANGED <<ledger, db, max_errors, errors, notified, calls, txs, local_hat>>
    /\ IF fail.at = "approvals"
       THEN /\ pc' = "running"
            /\ raised' = "GatewayError"
            /\ failures' = failures + 1
            /\ UNCHANGED <<contender, highestApprovals, next_yay, approvals_read>>
       ELSE /\ contender' = local_hat
            /\ highestApprovals' = approvals[local_hat]
            /\ next_yay' = 1
            /\ approvals_read' = <<approvals[local_hat]>>
            /\ UNCHANGED <<pc, raised, failures>>

\* one round of the for loop of check_hat (lines 248-252): the approvals of
\* the next yay are read; the gateway may raise in the read (fail.at
\* "approvals")
CheckHatLoop(fail) ==
    /\ pc = "check_hat"
    /\ next_yay >= 1
    /\ next_yay <= Len(yays)
    /\ UNCHANGED <<ledger, db, max_errors, errors, notified, calls, txs, local_hat>>
    /\ IF fail.at = "approvals"
       THEN /\ pc' = "running"
            /\ raised' = "GatewayError"
            /\ failures' = failures + 1
            /\ UNCHANGED <<contender, highestApprovals, next_yay, approvals_read>>
       ELSE \E r \in {hat_loop_body(contender, highestApprovals,
                                    yays[next_yay], approvals[yays[next_yay]])} :
               /\ contender' = r.contender
               /\ highestApprovals' = r.highestApprovals
               /\ next_yay' = next_yay + 1
               /\ approvals_read' = Append(approvals_read, approvals[yays[next_yay]])
               /\ UNCHANGED <<pc, raised, failures>>

\* the rest of check_hat (lines 254-269) and, when it returns, check_eta
CheckHatLift(fail) ==
    /\ pc = "check_hat"
    /\ next_yay >= 1
    /\ next_yay > Len(yays)
    /\ pc' = "running"
    /\ UNCHANGED <<chain, max_yays, approvals, spell_eta, spell_done,
                   db, max_errors, errors, notified, locals>>
    /\ \E r \in {check_hat_end(fail)}, e \in {check_eta(fail)} :
          /\ hat' = r.hat
          /\ IF r.raised # "none"
             THEN /\ calls' = <<"check_hat">>
                  /\ txs' = r.txs
                  /\ raised' = r.raised
             ELSE /\ calls' = <<"check_hat", "check_eta">>
                  /\ txs' = r.txs \o e.txs
                  /\ raised' = e.raised
          /\ failures' = IF raised' # "none" THEN failures + 1 ELSE failures

\* the operator restarts a stopped keeper: __init__ runs again
Restart ==
    /\ pc \in {"crashed", "terminated"}
    /\ pc' = "init"
    /\ errors' = 0
    /\ failures' = 0
    /\ calls' = << >>
    /\ txs' = << >>
    /\ raised' = "none"
    /\ contender' = "none"
    /\ local_hat' = "none"
    /\ highestApprovals' = 0
    /\ next_yay' = 0
    /\ approvals_read' = << >>
    /\ UNCHANGED <<ledger, db, max_errors, notified>>

\* ------------------------------------------------------------- the ledger moves
keeper == <<max_errors, errors, pc, notified, calls, txs, raised, failures, locals>>

\* a block is mined, with at most one etch event
Mine(etches) ==
    /\ Len(chain) < MaxHeight
    /\ chain' = Append(chain, etches)
    /\ UNCHANGED <<max_yays, approvals, hat, spell_eta, spell_done, db, keeper>>

\* a voter changes the approvals of one address
Vote(a, w) ==
    /\ approvals[a] # w
    /\ approvals' = [approvals EXCEPT ![a] = w]
    /\ UNCHANGED <<chain, max_yays, hat, spell_eta, spell_done, db, keeper>>

\* somebody else lifts an address with more approvals than the hat
EnvLift(a) ==
    /\ approvals[a] > approvals[hat]
    /\ hat' = a
    /\ UNCHANGED <<chain, max_yays, approvals, spell_eta, spell_done, db, keeper>>

\* somebody else schedules a spell
EnvSchedule(a) ==
    /\ a \in Spells
    /\ spell_eta[a] = 0 /\ ~spell_done[a]
    /\ spell_eta' = [spell_eta EXCEPT ![a] = getBlock_timestamp(blockNumber) + PauseDelay]
    /\ UNCHANGED <<chain, max_yays, approvals, hat, spell_done, db, keeper>>

\* somebody else casts a spell whose eta has passed
EnvCast(a) ==
    /\ a \in Spells
    /\ spell_eta[a] # 0 /\ getBlock_timestamp(blockNumber) >= spell_eta[a]
    /\ ~spell_done[a]
    /\ spell_done' = [spell_done EXCEPT ![a] = TRUE]
    /\ UNCHANGED <<chain, max_yays, approvals, hat, spell_eta, db, keeper>>

\* nobody has voted: every address has approval weight 0
NoVotes == [a \in Addresses |-> 0]

\* the keeper is constructed (__init__), no checkpoint file exists, the
\* ledger is at the deployment block
InitKeeper ==
    /\ chain = << >>
    /\ max_yays \in 1..MaxYays
    /\ spell_eta = [a \in Spells |-> 0]
    /\ spell_done = [a \in Spells |-> FALSE]
    /\ max_errors \in 0..MaxErrorsArg
    /\ errors = 0
    /\ pc = "init"
    /\ notified = 0
    /\ dbFile = FALSE
    /\ docs = 0
    /\ last_block_checked_for_yays = 0
    /\ yays = << >>
    /\ upcoming_etas = << >>
    /\ calls = << >>
    /\ txs = << >>
    /\ raised = "none"
    /\ contender = "none"
    /\ failures = 0
    /\ local_hat = "none"
    /\ highestApprovals = 0
    /\ next_yay = 0
    /\ approvals_read = << >>

Init ==
    /\ InitKeeper
    /\ approvals = NoVotes
    /\ hat = "A"

\* ------------------------------------------------------------- specifications
\* the failures of the gateway a step can meet: the call that raises, with
\* every combination of the answers the code survives
StartupFailPoints ==
    [at : {"none", "balance", "block", "scan"},
     cuts : Cuts(DeploymentBlock, blockNumber),
     liftNone : {FALSE}, etaValueError : {FALSE}]

EtasFailPoints ==
    [at : {"none", "etas"}, cuts : {<< >>},
     liftNone : {FALSE}, etaValueError : BOOLEAN]

BlockFailPoints ==
    [at : {"none", "block", "scan", "hat"},
     cuts : Cuts(last_block_checked_for_yays, blockNumber),
     liftNone : {FALSE}, etaValueError : {FALSE}]

ApprovalsFailPoints == {NoFail, Fail("approvals")}

LiftFailPoints ==
    [at : {"none", "lift", "done", "now", "check_eta"}, cuts : {<< >>},
     liftNone : BOOLEAN, etaValueError : BOOLEAN]

AllEtches == {<< >>} \cup {<<s>> : s \in SlateSet}

\* the keeper with every ledger movement and every failure
Next ==
    \/ \E fail \in StartupFailPoints : Startup(fail)
    \/ \E fail \in EtasFailPoints : StartupEtas(fail)
    \/ \E fail \in BlockFailPoints : ProcessBlock(fail)
    \/ \E fail \in ApprovalsFailPoints : CheckHatApprovals(fail)
    \/ \E fail \in ApprovalsFailPoints : CheckHatLoop(fail)
    \/ \E fail \in LiftFailPoints : CheckHatLift(fail)
    \/ Restart
    \/ \E etches \in AllEtches : Mine(etches)
    \/ \E a \in Addresses, w \in 0..MaxWeight : Vote(a, w)
    \/ \E a \in Addresses : EnvLift(a)
    \/ \E a \in Spells : EnvSchedule(a)
    \/ \E a \in Spells : EnvCast(a)

Spec == Init /\ [][Next]_vars

\* the keeper without failure of the gateway
NextKeeper ==
    \/ Startup(NoFail)
    \/ StartupEtas(NoFail)
    \/ ProcessBlock(NoFail)
    \/ CheckHatApprovals(NoFail)
    \/ CheckHatLoop(NoFail)
    \/ CheckHatLift(NoFail)

\* the indexer and the error budget: every history of etches of [A, B],
\* every failure and restart, on a ledger where nobody votes and no spell is
\* scheduled
IndexEtches == {<< >>, << <<"A", "B">> >>}

NextIndex ==
    \/ \E fail \in StartupFailPoints : Startup(fail)
    \/ \E fail \in EtasFailPoints : StartupEtas(fail)
    \/ \E fail \in BlockFailPoints : ProcessBlock(fail)
    \/ \E fail \in ApprovalsFailPoints : CheckHatApprovals(fail)
    \/ \E fail \in ApprovalsFailPoints : CheckHatLoop(fail)
    \/ \E fail \in LiftFailPoints : CheckHatLift(fail)
    \/ Restart
    \/ \E etches \in IndexEtches : Mine(etches)

SpecIndex == Init /\ [][NextIndex]_vars

\* the indexer alone: every etch history, no failure and no restart, the
\* error budget not 0
InitScan ==
    /\ Init
    /\ max_errors = MaxErrorsArg

NextScan ==
    \/ NextKeeper
    \/ \E etches \in AllEtches : Mine(etches)

SpecScan == InitScan /\ [][NextScan]_vars

\* leadership while the vote goes on: the keeper is constructed at block
\* MaxHeight - 1, where slate [B, C] was etched; voters and other lifters
\* move before and between the steps of check_hat (between the read of the
\* hat and the read of its approvals too); the block mined carries no etch,
\* and its scan meets [B, C] again
InitVote ==
    /\ chain = [n \in 1..(MaxHeight - 1) |->
                   IF n = MaxHeight - 1 THEN << <<"B", "C">> >> ELSE << >>]
    /\ max_yays = MaxYays
    /\ approvals = NoVotes
    /\ hat \in Addresses
    /\ spell_eta = [a \in Spells |-> 0]
    /\ spell_done = [a \in Spells |-> FALSE]
    /\ max_errors = MaxErrorsArg
    /\ errors = 0
    /\ pc = "init"
    /\ notified = 0
    /\ dbFile = FALSE
    /\ docs = 0
    /\ last_block_checked_for_yays = 0
    /\ yays = << >>
    /\ upcoming_etas = << >>
    /\ calls = << >>
    /\ txs = << >>
    /\ raised = "none"
    /\ contender = "none"
    /\ failures = 0
    /\ local_hat = "none"
    /\ highestApprovals = 0
    /\ next_yay = 0
    /\ approvals_read = << >>

NextVote ==
    \/ NextKeeper
    \/ Mine(<< >>)
    \/ \E a \in Addresses, w \in 0..MaxWeight : Vote(a, w)
    \/ \E a \in Addresses : EnvLift(a)

SpecVote == InitVote /\ [][NextVote]_vars

\* spells: scheduling and casting by others while the keeper runs, on a
\* ledger where nobody votes
EtaEtches == {<< >>, << <<"A", "B">> >>}

NextEta ==
    \/ NextKeeper
    \/ \E etches \in EtaEtches : Mine(etches)
    \/ \E a \in Spells : EnvSchedule(a)
    \/ \E a \in Spells : EnvCast(a)

SpecEta == Init /\ [][NextEta]_vars

\* leadership and spells together: the votes are cast before the keeper
\* starts, spells are scheduled and cast by others while it runs, the
\* gateway may fail around the lift, and the only slate etched is [A, B]
InitLift ==
    /\ InitKeeper
    /\ max_errors = MaxErrorsArg
    /\ max_yays = MaxYays
    /\ approvals \in [Addresses -> 0..MaxWeight]
    /\ hat \in Addresses

NextLift ==
    \/ Startup(NoFail)
    \/ StartupEtas(NoFail)
    \/ ProcessBlock(NoFail)
    \/ CheckHatApprovals(NoFail)
    \/ CheckHatLoop(NoFail)
    \/ \E fail \in LiftFailPoints : CheckHatLift(fail)
    \/ \E etches \in EtaEtches : Mine(etches)
    \/ \E a \in Spells : EnvSchedule(a)
    \/ \E a \in Spells : EnvCast(a)

SpecLift == InitLift /\ [][NextLift]_vars

\* restarts on a ledger with spells: every failure of the first run, the
\* error budget of 0 or more, scheduling and casting by others
NextRecover ==
    \/ \E fail \in StartupFailPoints : Startup(fail)
    \/ \E fail \in EtasFailPoints : StartupEtas(fail)
    \/ ProcessBlock(NoFail)
    \/ CheckHatApprovals(NoFail)
    \/ CheckHatLoop(NoFail)
    \/ CheckHatLift(NoFail)
    \/ Restart
    \/ \E etches \in EtaEtches : Mine(etches)
    \/ \E a \in Spells : EnvSchedule(a)
    \/ \E a \in Spells : EnvCast(a)

SpecRecover == Init /\ [][NextRecover]_vars

\* the keeper is constructed next to a readable checkpoint file that it did
\* not write itself (initial_query only opens such a file, lines 185-188):
\* the file of block 1, where slate [A, B] was etched, with spell A either
\* not scheduled or scheduled at block 1 and recorded under a string key
InitLoaded ==
    /\ chain = << << <<"A", "B">> >> >>
    /\ max_yays \in 1..MaxYays
    /\ approvals = NoVotes
    /\ hat = "A"
    /\ spell_eta \in [Spells -> {0, 1 + PauseDelay}]
    /\ spell_done = [a \in Spells |-> FALSE]
    /\ max_errors = MaxErrorsArg
    /\ errors = 0
    /\ pc = "init"
    /\ notified = 0
    /\ dbFile = TRUE
    /\ docs = 3
    /\ last_block_checked_for_yays = 1
    /\ yays = get_yays(DeploymentBlock, 1)
    /\ upcoming_etas = get_etas(yays, 1)
    /\ calls = << >>
    /\ txs = << >>
    /\ raised = "none"
    /\ contender = "none"
    /\ failures = 0
    /\ local_hat = "none"
    /\ highestApprovals = 0
    /\ next_yay = 0
    /\ approvals_read = << >>

\* with the file in place initial_query never reaches its lines 191-200
NextLoaded ==
    \/ Startup(NoFail)
    \/ ProcessBlock(NoFail)
    \/ CheckHatApprovals(NoFail)
    \/ CheckHatLoop(NoFail)
    \/ CheckHatLift(NoFail)
    \/ \E etches \in EtaEtches : Mine(etches)
    \/ \E a \in Spells : EnvSchedule(a)
    \/ \E a \in Spells : EnvCast(a)

SpecLoaded == InitLoaded /\ [][NextLoaded]_vars

\* the checkpoint under every way it comes to exist: written by the keeper's
\* own first run (Init) or found on disk (InitLoaded), the only way in which
\* upcoming_etas holds an entry; the eta reads of the first run may fail,
\* spells are scheduled and cast by others, [A, B] is etched again
InitCheckpoint == Init \/ InitLoaded

NextCheckpoint ==
    \/ Startup(NoFail)
    \/ \E fail \in EtasFailPoints : StartupEtas(fail)
    \/ ProcessBlock(NoFail)
    \/ CheckHatApprovals(NoFail)
    \/ CheckHatLoop(NoFail)
    \/ CheckHatLift(NoFail)
    \/ \E etches \in EtaEtches : Mine(etches)
    \/ \E a \in Spells : EnvSchedule(a)
    \/ \E a \in Spells : EnvCast(a)

SpecCheckpoint == InitCheckpoint /\ [][NextCheckpoint]_vars

\* ------------------------------------------------------------- properties
IsPrefix(s, t) == Len(s) <= Len(t) /\ SubSeq(t, 1, Len(s)) = s
NoDuplicates(s) == \A i, j \in DOMAIN s : i # j => s[i] # s[j]
Elems(s) == {s[i] : i \in DOMAIN s}
FirstIndex(s, x) == CHOOSE i \in DOMAIN s : s[i] = x /\ \A j \in 1..(i - 1) : s[j] # x
Smaller(a, b) == IF a <= b THEN a ELSE b
CastCount(t, y) == Cardinality({i \in DOMAIN t : t[i] = Tx("cast", y)})

\* the step in which the lifecycle calls process_block
ProcessStep == pc = "running" /\ notified' # notified
\* the step that ends the approvals loop of check_hat: lines 254-269 and,
\* when check_hat returns, check_eta
LiftStep == pc = "check_hat" /\ pc' = "running" /\ next_yay >= 1 /\ next_yay > Len(yays)
\* the step of a process_block call in which check_hat returned, so that
\* check_eta was called
EtaStep == LiftStep /\ "check_eta" \in Elems(calls')

\* C1 (as claimed): once max_errors process_block calls have failed, every
\* further process_block call only calls lifecycle.terminate; a terminated
\* keeper stays terminated until it is restarted; errors never decreases.
C1_CircuitBreaker ==
    [][ /\ (ProcessStep /\ failures >= max_errors) => calls' = <<"terminate">>
        /\ (pc = "terminated" => pc' \in {"terminated", "init"})
        /\ (pc' # "init" => errors' >= errors) ]_vars

\* C2 (as claimed): every process_block call in which check_hat or check_eta
\* raised has incremented errors by exactly one, and no exception escapes
\* process_block.
C2_FailureCounted ==
    pc \in {"running", "terminated"} =>
        /\ errors = failures
        /\ (calls # << >> /\ Head(calls) = "check_hat" => raised = "none")

\* C3 (as claimed): when check_eta runs, every entry of upcoming_etas whose
\* eta <= the block timestamp is removed, with exactly one cast if the spell
\* is not done and none if it is; a future entry stays, without a cast.
C3_EtaCasting ==
    [][ EtaStep =>
          \A y \in DOMAIN upcoming_etas :
             IF upcoming_etas[y] <= getBlock_timestamp(blockNumber)
             THEN /\ y \notin DOMAIN upcoming_etas'
                  /\ CastCount(txs', y) = (IF DSSSpell_done(y) THEN 0 ELSE 1)
             ELSE /\ y \in DOMAIN upcoming_etas'
                  /\ upcoming_etas'[y] = upcoming_etas[y]
                  /\ CastCount(txs', y) = 0 ]_vars

\* C4 (as claimed): an entry leaves upcoming_etas only in a block that casts
\* it or finds it done, and a block processed without a gateway failure at a
\* timestamp >= the eta of a recorded, not-done spell submits its cast.
C4_EventualCast ==
    [][ /\ \A y \in DOMAIN upcoming_etas :
              y \notin DOMAIN upcoming_etas' =>
                  CastCount(txs', y) >= 1 \/ DSSSpell_done(y)
        /\ EtaStep =>
              \A y \in DOMAIN upcoming_etas :
                 (~DSSSpell_done(y)
                    /\ getBlock_timestamp(blockNumber) >= upcoming_etas[y])
                 => CastCount(txs', y) >= 1 ]_vars

\* C5 (as claimed): when the ledger holds nothing beyond
\* last_block_checked_for_yays, running update_db_yays again leaves yays and
\* last_block_checked_for_yays as they are.
C5_Idempotent ==
    (pc = "running" /\ docs = 3 /\ last_block_checked_for_yays = blockNumber) =>
        LET again == update_db_yays(blockNumber, NoFail)
        IN /\ again.raised = "none"
           /\ again.yays = yays
           /\ again.last = last_block_checked_for_yays

\* C6 (as claimed): the persisted yays never hold an address twice.
C6_NoDuplicates == NoDuplicates(yays)

\* C7: in every step the persisted yays are extended at the end (the old list
\* is a prefix of the new one, so nothing is removed or reordered) and
\* last_block_checked_for_yays does not decrease.
C7_Monotonic ==
    [][ /\ IsPrefix(yays, yays')
        /\ last_block_checked_for_yays' >= last_block_checked_for_yays ]_vars

\* a processed block has appended to a checkpoint that already held every address
C7_Witness ==
    /\ calls = <<"check_hat", "check_eta">>
    /\ Len(yays) > Cardinality(Addresses)
    /\ last_block_checked_for_yays >= 2

\* the unpacked slates of a range, concatenated in discovery order
RawYays(b, e) == concat_slates(past_etch_in_range(b, e), max_yays)
\* r lists the addresses of raw once each, ordered by first occurrence in raw
FirstOccurrences(r, raw) ==
    /\ Elems(r) = Elems(raw)
    /\ \A i, j \in DOMAIN r : i < j => FirstIndex(raw, r[i]) < FirstIndex(raw, r[j])

\* C8: for every block range of the ledger, get_yays returns the addresses
\* of the concatenated unpacked slates once each, at the position of their
\* first occurrence; the first-run scan persists exactly that list.
C8_DedupOrder ==
    /\ \A b \in 0..blockNumber : \A e \in b..blockNumber :
          FirstOccurrences(get_yays(b, e), RawYays(b, e))
    /\ ("get_yays" \in Elems(calls) /\ docs >= 2) =>
          FirstOccurrences(yays, RawYays(DeploymentBlock, last_block_checked_for_yays))

\* the first-run scan met "B" in two slates and kept it once, in second place
C8_Witness ==
    /\ calls = <<"initial_query", "get_yays", "get_etas">>
    /\ RawYays(DeploymentBlock, last_block_checked_for_yays) = <<"A", "B", "B", "C">>
    /\ yays = <<"A", "B", "C">>

\* C9: for every slate on the ledger and every maxYays, unpack_slate returns
\* the first min(k, maxYays) members in index order and issues
\* min(k + 1, maxYays) lookups: it stops at the first lookup past the end.
C9_BoundedUnpack ==
    \A n \in DOMAIN chain : \A k \in DOMAIN chain[n] : \A m \in 0..(MaxYays + 1) :
        LET slate == chain[n][k]
        IN /\ unpack_slate(slate, m) = SubSeq(slate, 1, Smaller(Len(slate), m))
           /\ unpack_lookups(slate, m) = Smaller(Len(slate) + 1, m)

\* the keeper has scanned a slate of true length 1 under MAX_YAYS = 2
C9_Witness ==
    /\ docs >= 2
    /\ max_yays = 2
    /\ chain = << << <<"C">> >> >>
    /\ yays = <<"C">>

\* the first index of the weights w that holds their greatest value
EarliestMax(w) ==
    CHOOSE i \in DOMAIN w :
        /\ \A j \in DOMAIN w : w[j] <= w[i]
        /\ \A j \in 1..(i - 1) : w[j] < w[i]

\* C10: check_hat takes as hat the address line 243 reads; it reads the
\* weight of that address at the time of line 244 and the weight of each yay
\* at the time of its round of the loop; from line 246 on and after every
\* round, the contender is the earliest address, in the order hat then yays,
\* whose weight as read is the greatest read so far, and highestApprovals is
\* that weight.
C10_Leadership ==
    [][ /\ (ProcessStep /\ pc' = "check_hat") => local_hat' = hat
        /\ (pc' = "check_hat" /\ next_yay' >= 1) =>
              /\ Len(approvals_read') = next_yay'
              /\ contender' = (<<local_hat'>> \o yays')[EarliestMax(approvals_read')]
              /\ highestApprovals' = approvals_read'[EarliestMax(approvals_read')]
              /\ next_yay' # next_yay =>
                    approvals_read' =
                        Append(approvals_read,
                               approvals[(<<local_hat>> \o yays)[next_yay + 1]]) ]_vars

\* hat A read at weight 0 and yays B, C, B, C read at 1, 2, 2, 2 (B was
\* voted up after its first read): B was the first to exceed the hat, but C,
\* the first to reach the greatest weight, is the contender, and B, read
\* later at that weight, has not displaced it
C10_Witness ==
    /\ pc = "check_hat"
    /\ next_yay > Len(yays)
    /\ local_hat = "A"
    /\ yays = <<"B", "C", "B", "C">>
    /\ approvals_read = <<0, 1, 2, 2, 2>>
    /\ contender = "C"

\* the transactions of kind fn in a list of submitted transactions
Submitted(t, fn) == {t[i].to : i \in {j \in DOMAIN t : t[j].fn = fn}}

\* C11: when the loop of check_hat has read no weight of a yay greater than
\* the weight it read for the hat, the rest of check_hat submits no lift and
\* no schedule and leaves the hat alone; a lift is only ever submitted for a
\* contender that differs from the hat check_hat read.
C11_NoChange ==
    [][ LiftStep =>
          /\ (\A i \in 2..Len(approvals_read) : approvals_read[i] <= approvals_read[1]) =>
                 /\ contender = local_hat
                 /\ Submitted(txs', "lift") = {}
                 /\ Submitted(txs', "schedule") = {}
                 /\ hat' = hat
          /\ Submitted(txs', "lift") # {} => contender # local_hat ]_vars

\* a block was processed with a candidate read at the weight of the hat, 1,
\* while somebody else lifted another address after line 243 had read the
\* hat: nothing was submitted
C11_Witness ==
    /\ calls = <<"check_hat", "check_eta">>
    /\ contender = local_hat
    /\ hat # local_hat
    /\ txs = << >>
    /\ approvals_read[1] = 1
    /\ \E i \in DOMAIN yays : yays[i] # local_hat /\ approvals_read[i + 1] = 1

\* C12: in every reachable state, whether the checkpoint was written by the
\* keeper or found on disk, every key of the persisted upcoming_etas is one
\* of the persisted yays.
C12_SubsetInvariant == DOMAIN upcoming_etas \subseteq Elems(yays)

\* a checkpoint found on disk holds an entry for A; the keeper has processed
\* blocks since and has appended to yays
C12_Witness ==
    /\ calls = <<"check_hat", "check_eta">>
    /\ DOMAIN upcoming_etas = {"A"}
    /\ Len(yays) > Len(get_yays(DeploymentBlock, 1))
    /\ last_block_checked_for_yays = 3

\* C13: no entry of the persisted upcoming_etas is 0; at every block of the
\* ledger and under every failure of the eta() call, get_etas of the
\* persisted yays records a yay only if it is a spell whose eta() call
\* answers, with the eta the ledger holds for it, which is not 0 and is
\* greater than the timestamp of that block; without a failure it records
\* every such yay.
C13_NoZeroEta ==
    /\ \A y \in DOMAIN upcoming_etas : upcoming_etas[y] # 0
    /\ \A b \in 0..blockNumber : \A fail \in EtasFailPoints :
          LET etas == get_etas_at(yays, b, fail)
          IN \A y \in Addresses :
                /\ y \in DOMAIN etas =>
                      /\ y \in Elems(yays) \cap Spells
                      /\ ~fail.etaValueError
                      /\ etas[y] = spell_eta[y]
                      /\ etas[y] # 0
                      /\ etas[y] > b
                /\ (y \in Elems(yays) \cap Spells /\ ~fail.etaValueError
                      /\ spell_eta[y] > b)
                   => y \in DOMAIN etas

\* a checkpoint found on disk holds the entry of A, scheduled for time 3,
\* and none for B, a yay whose eta reads 0; the keeper has processed block 2,
\* where get_etas still records A, and A alone
C13_Witness ==
    /\ calls = <<"check_hat", "check_eta">>
    /\ notified = 2
    /\ "B" \in Elems(yays)
    /\ DOMAIN upcoming_etas = {"A"}
    /\ upcoming_etas["A"] = 1 + PauseDelay
    /\ DOMAIN get_etas(yays, blockNumber) = {"A"}

\* C14 (as claimed): a check_hat in which the gateway does not raise and
\* whose contender differs from the hat it read submits the lift of the contender
\* first and, for a contender that is a contract, its schedule exactly when
\* the spell is not done and its eta reads 0; every schedule submitted
\* follows a lift of the same address in the same call and is for a spell
\* that is not done and whose eta reads 0.
C14_LiftThenSchedule ==
    [][ (LiftStep /\ raised' # "GatewayError") =>
          /\ contender # local_hat =>
                /\ txs' # << >>
                /\ txs'[1] = Tx("lift", contender)
                /\ contender \in Contracts =>
                      (contender \in Submitted(txs', "schedule")
                         <=> (~DSSSpell_done(contender) /\ get_eta_inUnix(contender) = 0))
          /\ \A i \in DOMAIN txs' :
                txs'[i].fn = "schedule" =>
                    /\ \E j \in 1..(i - 1) : txs'[j] = Tx("lift", txs'[i].to)
                    /\ ~DSSSpell_done(txs'[i].to)
                    /\ get_eta_inUnix(txs'[i].to) = 0 ]_vars

\* C15 (as claimed): in every process_block call of a running keeper
\* check_hat returns before check_eta is called, the call leaves
\* last_block_checked_for_yays at the block it was called for and upcoming_etas
\* holding every contract of yays whose eta lies after the block's
\* timestamp, and no cast is submitted before a lift or schedule.
C15_PerBlockOrdering ==
    [][ EtaStep =>
          /\ calls' = <<"check_hat", "check_eta">>
          /\ last_block_checked_for_yays' = notified
          /\ \A i \in DOMAIN yays' :
                (yays'[i] \in Contracts
                   /\ get_eta_inUnix(yays'[i]) > getBlock_timestamp(blockNumber))
                => yays'[i] \in DOMAIN upcoming_etas'
          /\ \A i, j \in DOMAIN txs' :
                (txs'[i].fn = "cast" /\ txs'[j].fn \in {"lift", "schedule"}) => j < i ]_vars

\* C16 (as claimed): applied to a checkpoint that holds entries,
\* update_db_etas returns normally, keeps every entry of upcoming_etas with
\* its eta, and every entry it adds is a yay that is not done and whose eta
\* lies after the block's timestamp.
C16_RefreshFrame ==
    (pc = "running" /\ docs = 3 /\ upcoming_etas # << >>) =>
        LET r == update_db_etas(blockNumber)
        IN /\ r.raised = "none"
           /\ \A y \in DOMAIN upcoming_etas :
                 y \in DOMAIN r.upcoming_etas /\ r.upcoming_etas[y] = upcoming_etas[y]
           /\ \A y \in DOMAIN r.upcoming_etas \ DOMAIN upcoming_etas :
                 /\ y \in Elems(yays)
                 /\ ~DSSSpell_done(y)
                 /\ r.upcoming_etas[y] = get_eta_inUnix(y)
                 /\ r.upcoming_etas[y] > getBlock_timestamp(blockNumber)

\* the addresses etched in block n
Etched(n) == UNION {Elems(chain[n][k]) : k \in DOMAIN chain[n]}

\* C17: a process_block call of a running keeper that reaches check_hat,
\* whatever slate lookups the gateway cuts, either has set
\* last_block_checked_for_yays to the current block, with or without an etch
\* in its range, or has raised before update_db_yays returned and has left
\* last_block_checked_for_yays and yays as they were; what the call appended
\* to yays was etched in a block from the previous
\* last_block_checked_for_yays to the current one, never earlier.
C17_Checkpoint ==
    [][ (ProcessStep /\ calls' = <<"check_hat">>) =>
          /\ \/ last_block_checked_for_yays' = blockNumber
             \/ /\ raised' # "none"
                /\ UNCHANGED <<last_block_checked_for_yays, yays>>
          /\ IsPrefix(yays, yays')
          /\ \A i \in (Len(yays) + 1)..Len(yays') :
                \E n \in DOMAIN chain :
                   /\ n >= last_block_checked_for_yays
                   /\ n <= blockNumber
                   /\ yays'[i] \in Etched(n) ]_vars

\* started at block 2 behind an etch of block 1, the keeper processed block 3
\* and found no etch in blocks 2..3: yays is unchanged, the checkpoint is at 3
C17_Witness ==
    /\ calls = <<"check_hat", "check_eta">>
    /\ chain = << << <<"A", "B">> >>, << >>, << >> >>
    /\ yays = <<"A", "B">>
    /\ last_block_checked_for_yays = 3

\* C18 (as claimed): an initial_query that met no gateway failure leaves
\* the keeper running; when no checkpoint file existed it has created one
\* with last_block_checked_for_yays at the current block, yays the
\* once-each scan from the deployment block to that block, and
\* upcoming_etas the etas of the contract yays that lie after that block's
\* timestamp; when a file existed it has left the three fields as they were
\* and has not scanned.
C18_InitialQuery ==
    [][ /\ (pc = "init" /\ pc' # "init" /\ raised' # "GatewayError") =>
            IF dbFile
            THEN /\ pc' = "running"
                 /\ UNCHANGED <<last_block_checked_for_yays, yays, upcoming_etas>>
                 /\ "get_yays" \notin Elems(calls')
                 /\ "get_etas" \notin Elems(calls')
            ELSE /\ pc' = "initial_query"
                 /\ last_block_checked_for_yays' = blockNumber
                 /\ FirstOccurrences(yays', RawYays(DeploymentBlock, blockNumber))
        /\ (pc = "initial_query" /\ pc' # "initial_query" /\ raised' # "GatewayError") =>
            /\ pc' = "running"
            /\ docs' = 3
            /\ UNCHANGED <<last_block_checked_for_yays, yays>>
            /\ DOMAIN upcoming_etas' =
                  {y \in Elems(yays) \cap Contracts :
                       get_eta_inUnix(y) > getBlock_timestamp(last_block_checked_for_yays)}
            /\ \A y \in DOMAIN upcoming_etas' :
                  upcoming_etas'[y] = get_eta_inUnix(y) ]_vars

\* C19 (as claimed): whenever the block loop can run, the checkpoint holds
\* its three documents and yays holds every address of every etch from the
\* deployment block to last_block_checked_for_yays.
C19_RestartSafety ==
    pc \in {"running", "check_hat"} =>
        /\ docs = 3
        /\ Elems(RawYays(DeploymentBlock, last_block_checked_for_yays)) \subseteq Elems(yays)

====
